---- MODULE Spec2Model ----
(***************************************************************************)
(* hemspy preprocessing: zone visits (extract_entries_and_exits), transfer *)
(* matching (create_transfer_dataframe) and the HEMS weather minima        *)
(* (hems_minima, hems_minima_window), modelled from                        *)
(* src/preprocess/find_transfers.py, src/preprocess/infer_hems_minima.py   *)
(* and the weather fields of src/preprocess/parse_metar.py.                *)
(*                                                                         *)
(* Times are whole minutes.  A missing number (NaN) or time (NaT) is the   *)
(* value NaN below; every comparison with it is false, as in numpy/pandas. *)
(***************************************************************************)
EXTENDS Integers, Sequences, FiniteSets, TLC

VARIABLES
    \* ---- hems_minima ----
    wpc,            \* "input" | "classified"
    row,            \* the weather observation handed to hems_minima
    verdict,        \* what hems_minima returned: "True" | "False" | "NaN"
    \* ---- create_transfer_dataframe ----
    tpc,            \* "load" | "loop" | "done"
    d,              \* the accepted visits, in row order
    args,           \* max_transit_time, remove_outliers, outlier_factor, outlier_offset
    transfer_ids,   \* column d_transfer['transfer_id'] (NaN = not set)
    transfer_id,    \* the counter of line 66
    k,              \* position of the loop of line 69 in d_primary
    d_transfers_merged, \* the returned table
    \* ---- the enrichment of one merged row (lines 94-110) ----
    epc,            \* "merged" | "enriched"
    ein,            \* the merged row, its distance and the outlier arguments
    eout,           \* the enriched row
    \* ---- extract_entries_and_exits ----
    zpc,            \* "load" | "done" | "refiltered"
    positions,      \* the position records, in row order
    events,         \* rows kept by line 30, with UTC_out and time_in_zone
    visits,         \* the returned table
    refiltered,     \* the dwell filter applied to the returned table
    \* ---- hems_minima over a batch of weather rows ----
    bpc,            \* "input" | "returned" | "raised"
    batch,          \* the weather rows, in row order
    verdicts,       \* column hems_minima of the batch (empty when raised)
    \* ---- hems_minima_window ----
    hpc,            \* "input" | "done"
    obs,            \* argument d: rows with icao, time_utc, hems_minima
    res_df          \* the returned table

wvars == <<wpc, row, verdict>>
tvars == <<tpc, d, args, transfer_ids, transfer_id, k, d_transfers_merged>>
evars == <<epc, ein, eout>>
zvars == <<zpc, positions, events, visits, refiltered>>
bvars == <<bpc, batch, verdicts>>
hvars == <<hpc, obs, res_df>>
vars == <<wvars, tvars, evars, zvars, bvars, hvars>>

\* numpy.nan / pandas.NaT
NaN == -1

isnan(x) == x = NaN

\* The string 'ParserError' that parse_metar stores in a weather field when
\* the METAR does not parse.
ParserError == -2

\* np.isnan of a str raises TypeError.
isnan_raises(x) == x = ParserError

\* A Python bool as the result of a comparison.
PyBool(b) == IF b THEN "True" ELSE "False"

WIdle == wpc = "idle" /\ row = <<>> /\ verdict = "NaN"
TIdle == /\ tpc = "idle" /\ d = <<>> /\ args = <<>> /\ transfer_ids = <<>>
         /\ transfer_id = 0 /\ k = 0 /\ d_transfers_merged = <<>>
EIdle == epc = "idle" /\ ein = <<>> /\ eout = <<>>
ZIdle == /\ zpc = "idle" /\ positions = <<>> /\ events = <<>> /\ visits = <<>>
         /\ refiltered = <<>>
BIdle == bpc = "idle" /\ batch = <<>> /\ verdicts = <<>>
HIdle == hpc = "idle" /\ obs = <<>> /\ res_df = <<>>

(***************************************************************************)
(* Transfer matching: find_transfers.create_transfer_dataframe             *)
(***************************************************************************)

\* Bounds of the accepted-visit tables.
MaxVisits == 4
NumAircraft == 2

\* Minutes between an aircraft's exit from one accepted visit and its entry
\* into the next one, and minutes spent in a zone.  With the dwell of 31,
\* the gaps give transits of 0, 29, 31, 60, 89, 180, 211, ... minutes: both
\* ends of the 1 h and 3 h windows and both sides of the outlier thresholds.
GapValues == {0, 29, 180}
DwellValues == {31}

\* Values of the max_transit_time argument (hours); 3 is the default.
MaxTransitChoices == {1, 3}
DefaultOutlierFactor == 2
DefaultOutlierOffset == 5

\* Distances (km) between the two visits of a transfer, as the geometry
\* service returns them; multiples of 25 km, for which (km / 250) * 60 is a
\* whole number of minutes, exact in floating point too.
DistValues == {50, 125}

CruiseSpeed == 250

Indices(n) == [i \in 1..n |-> i]

\* pd.Timedelta(hours=h), in minutes
Timedelta(h) == h * 60

\* d_transfer[d_transfer['is_primary_hospital']] and its complement, as the
\* row labels in row order.
d_primary(tbl) == SelectSeq(Indices(Len(tbl)), LAMBDA i : tbl[i].is_primary_hospital)

d_tertiary(tbl) == SelectSeq(Indices(Len(tbl)), LAMBDA i : ~tbl[i].is_primary_hospital)

valid_tertiary_landings_no_upper(tbl, max_transit_time, idx_primary) ==
    LET row_primary == tbl[idx_primary]
    IN SelectSeq(d_tertiary(tbl), LAMBDA t :
           /\ tbl[t].aircraft_id = row_primary.aircraft_id
           /\ tbl[t].UTC >= row_primary.UTC_out)

valid_tertiary_landings_any_aircraft(tbl, max_transit_time, idx_primary) ==
    LET row_primary == tbl[idx_primary]
    IN SelectSeq(d_tertiary(tbl), LAMBDA t :
           /\ tbl[t].UTC >= row_primary.UTC_out
           /\ tbl[t].UTC <= row_primary.UTC_out + Timedelta(max_transit_time))

valid_tertiary_landings(tbl, max_transit_time, idx_primary) ==
    LET row_primary == tbl[idx_primary]
    IN SelectSeq(d_tertiary(tbl), LAMBDA t :
           /\ tbl[t].aircraft_id = row_primary.aircraft_id
           /\ tbl[t].UTC >= row_primary.UTC_out
           /\ tbl[t].UTC <= row_primary.UTC_out + Timedelta(max_transit_time))

\* Line 79: valid_tertiary_landings.index[0]
first_valid_last(valid) == valid[Len(valid)]

first_valid(valid) == valid[1]

\* Line 80: transfer_id += 1
next_transfer_id_stuck(tid) == 1

next_transfer_id(tid) == tid + 1

\* One row of pd.merge(sending, receiving, on='transfer_id'); index_sending
\* and index_receiving are the row labels reset_index keeps as columns.
MergedRow(tbl, ids, s, r) ==
    [transfer_id |-> ids[s],
     index_sending |-> s,
     index_receiving |-> r,
     UTC_sending |-> tbl[s].UTC,
     UTC_out_sending |-> tbl[s].UTC_out,
     UTC_receiving |-> tbl[r].UTC,
     aircraft_id_receiving |-> tbl[r].aircraft_id]

RECURSIVE MergeOn(_, _, _, _)
\* The inner join on transfer_id: for each sending row in order, the
\* receiving rows with its transfer_id in order.
MergeOn(tbl, ids, sending, receiving) ==
    IF sending = <<>> THEN <<>>
    ELSE LET s == Head(sending)
             match == SelectSeq(receiving, LAMBDA r : ids[r] = ids[s])
         IN [j \in 1..Len(match) |-> MergedRow(tbl, ids, s, match[j])]
            \o MergeOn(tbl, ids, Tail(sending), receiving)

Enrich_inclusive(m, dist, outlier_factor, outlier_offset) ==
    LET expected_transit_time == (dist * 60) \div CruiseSpeed
        transit_time == m.UTC_receiving - m.UTC_out_sending
    IN [transfer_id |-> m.transfer_id,
        index_sending |-> m.index_sending,
        index_receiving |-> m.index_receiving,
        UTC_sending |-> m.UTC_sending,
        UTC_out_sending |-> m.UTC_out_sending,
        UTC_receiving |-> m.UTC_receiving,
        aircraft_id_receiving |-> m.aircraft_id_receiving,
        estimated_distance |-> dist,
        expected_transit_time |-> expected_transit_time,
        transit_time |-> transit_time,
        transit_time_outlier |->
            transit_time >= expected_transit_time * outlier_factor + outlier_offset]

\* Lines 97-110 on one merged row whose estimated_distance is dist.
Enrich(m, dist, outlier_factor, outlier_offset) ==
    LET expected_transit_time == (dist * 60) \div CruiseSpeed
        transit_time == m.UTC_receiving - m.UTC_out_sending
    IN [transfer_id |-> m.transfer_id,
        index_sending |-> m.index_sending,
        index_receiving |-> m.index_receiving,
        UTC_sending |-> m.UTC_sending,
        UTC_out_sending |-> m.UTC_out_sending,
        UTC_receiving |-> m.UTC_receiving,
        aircraft_id_receiving |-> m.aircraft_id_receiving,
        estimated_distance |-> dist,
        expected_transit_time |-> expected_transit_time,
        transit_time |-> transit_time,
        transit_time_outlier |->
            transit_time > expected_transit_time * outlier_factor + outlier_offset]

\* A matcher that pairs every matched primary row with the landing it
\* selected, instead of joining on the transfer_id column.
MergeTransfers_selected(tbl, ids) ==
    LET matched == SelectSeq(d_primary(tbl), LAMBDA i : ~isnan(ids[i]))
    IN [j \in 1..Len(matched) |->
           MergedRow(tbl, ids, matched[j],
                     first_valid(valid_tertiary_landings(tbl, args.max_transit_time,
                                                         matched[j])))]

\* Lines 84-91: dropna, the split into sending and receiving rows, the merge.
MergeTransfers(tbl, ids) ==
    LET kept == SelectSeq(Indices(Len(tbl)), LAMBDA i : ~isnan(ids[i]))
        d_transfers_sending == SelectSeq(kept, LAMBDA i : tbl[i].is_primary_hospital)
        d_transfer_receiving == SelectSeq(kept, LAMBDA i : ~tbl[i].is_primary_hospital)
    IN MergeOn(tbl, ids, d_transfers_sending, d_transfer_receiving)

\* Lines 94-117: the enrichment of every merged row (dists[j] the distance
\* of row j) and the optional outlier filter.
EnrichTransfers(merged, a, dists) ==
    LET enriched == [j \in 1..Len(merged) |->
                        Enrich(merged[j], dists[j], a.outlier_factor, a.outlier_offset)]
    IN IF a.remove_outliers
       THEN SelectSeq(enriched, LAMBDA m : m.transit_time_outlier = FALSE)
       ELSE enriched

InitTransfers ==
    /\ tpc = "load"
    /\ d = <<>>
    /\ args = <<>>
    /\ transfer_ids = <<>>
    /\ transfer_id = 0
    /\ k = 0
    /\ d_transfers_merged = <<>>
    /\ WIdle /\ EIdle /\ ZIdle /\ BIdle /\ HIdle

\* The caller's table gains one accepted visit.  extract_entries_and_exits
\* returns the visits in aircraft blocks, each in time order, a visit
\* starting no earlier than the aircraft's previous one ended.
AddVisit ==
    /\ tpc = "load"
    /\ Len(d) < MaxVisits
    /\ \E a \in 1..NumAircraft, p \in BOOLEAN, gap \in GapValues, dwell \in DwellValues :
          /\ IF d = <<>> THEN a = 1
             ELSE a \in {d[Len(d)].aircraft_id, d[Len(d)].aircraft_id + 1}
          /\ LET start == IF d # <<>> /\ d[Len(d)].aircraft_id = a
                          THEN d[Len(d)].UTC_out + gap
                          ELSE gap
             IN d' = Append(d, [aircraft_id |-> a, is_primary_hospital |-> p,
                                UTC |-> start, UTC_out |-> start + dwell])
    /\ UNCHANGED <<tpc, args, transfer_ids, transfer_id, k, d_transfers_merged, wvars, evars, zvars, bvars, hvars>>

\* Lines 58-66: the call, up to the loop.
Call ==
    /\ tpc = "load"
    /\ \E m \in MaxTransitChoices, r \in BOOLEAN :
          args' = [max_transit_time |-> m, remove_outliers |-> r,
                   outlier_factor |-> DefaultOutlierFactor,
                   outlier_offset |-> DefaultOutlierOffset]
    /\ transfer_ids' = [i \in 1..Len(d) |-> NaN]
    /\ transfer_id' = 0
    /\ k' = 1
    /\ tpc' = "loop"
    /\ UNCHANGED <<d, d_transfers_merged, wvars, evars, zvars, bvars, hvars>>

\* Lines 69-82: one iteration of the loop over d_primary.
Iterate ==
    /\ tpc = "loop"
    /\ k <= Len(d_primary(d))
    /\ LET idx_primary == d_primary(d)[k]
           valid == valid_tertiary_landings(d, args.max_transit_time, idx_primary)
       IN IF valid # <<>>
          THEN LET first_valid_idx == first_valid(valid)
                   new_id == next_transfer_id(transfer_id)
               IN /\ transfer_id' = new_id
                  /\ transfer_ids' = [[transfer_ids EXCEPT ![idx_primary] = new_id]
                                          EXCEPT ![first_valid_idx] = new_id]
          ELSE UNCHANGED <<transfer_id, transfer_ids>>
    /\ k' = k + 1
    /\ UNCHANGED <<tpc, d, args, d_transfers_merged, wvars, evars, zvars, bvars, hvars>>

\* Lines 84-117: after the loop, to the return.
Return ==
    /\ tpc = "loop"
    /\ k > Len(d_primary(d))
    /\ LET merged == MergeTransfers(d, transfer_ids)
       IN \E dists \in [1..Len(merged) -> DistValues] :
             d_transfers_merged' = EnrichTransfers(merged, args, dists)
    /\ tpc' = "done"
    /\ UNCHANGED <<d, args, transfer_ids, transfer_id, k, wvars, evars, zvars, bvars, hvars>>

NextTransfers == AddVisit \/ Call \/ Iterate \/ Return

SpecTransfers == InitTransfers /\ [][NextTransfers]_vars

Done == tpc = "done"

Out == d_transfers_merged

\* Claim vocabulary: tertiary row t lies in the time window of primary row p
\* of the same aircraft.
InWindow(p, t) ==
    /\ d[p].is_primary_hospital /\ ~d[t].is_primary_hospital
    /\ d[t].aircraft_id = d[p].aircraft_id
    /\ d[p].UTC_out <= d[t].UTC
    /\ d[t].UTC <= d[p].UTC_out + 60 * args.max_transit_time

Candidates(p) == {t \in 1..Len(d) : InWindow(p, t)}

Min(S) == CHOOSE x \in S : \A y \in S : x <= y

\* C1: in the returned table no tertiary visit is the receiving visit of two
\* transfers and no primary visit is the sending visit of two transfers.
C1_VisitInAtMostOneTransfer ==
    Done => \A i, j \in 1..Len(Out) :
                i # j => /\ Out[i].index_receiving # Out[j].index_receiving
                         /\ Out[i].index_sending # Out[j].index_sending

\* C1 witness: the windows of two primary visits of one aircraft contain the
\* same tertiary visit, which is in the returned table.
C1_Witness ==
    /\ Done
    /\ \E p1, p2, t \in 1..Len(d) :
          /\ p1 # p2 /\ InWindow(p1, t) /\ InWindow(p2, t)
          /\ \E i \in 1..Len(Out) : Out[i].index_receiving = t

\* C2: every returned transfer has sending.UTC_out <= receiving.UTC <=
\* sending.UTC_out + max_transit_time hours, both bounds inclusive.
C2_TransferInsideWindow ==
    Done => \A i \in 1..Len(Out) :
                LET s == d[Out[i].index_sending]
                    r == d[Out[i].index_receiving]
                IN /\ s.UTC_out <= r.UTC
                   /\ r.UTC <= s.UTC_out + 60 * args.max_transit_time
                   /\ Out[i].UTC_out_sending = s.UTC_out
                   /\ Out[i].UTC_receiving = r.UTC

\* C2 witness: a transfer exactly max_transit_time after the exit is returned
\* while a later tertiary visit of the same aircraft, outside the window, is
\* in no transfer.
C2_Witness ==
    /\ Done
    /\ \E i \in 1..Len(Out) :
          /\ Out[i].UTC_receiving = Out[i].UTC_out_sending + 60 * args.max_transit_time
          /\ \E t \in 1..Len(d) :
                /\ ~d[t].is_primary_hospital
                /\ d[t].aircraft_id = Out[i].aircraft_id_receiving
                /\ d[t].UTC > Out[i].UTC_receiving
                /\ \A j \in 1..Len(Out) : Out[j].index_receiving # t

\* C3: every returned transfer pairs a primary sending visit with a
\* non-primary receiving visit of the same aircraft.
C3_PrimaryToTertiarySameAircraft ==
    Done => \A i \in 1..Len(Out) :
                LET s == d[Out[i].index_sending]
                    r == d[Out[i].index_receiving]
                IN /\ s.is_primary_hospital = TRUE
                   /\ r.is_primary_hospital = FALSE
                   /\ s.aircraft_id = r.aircraft_id
                   /\ Out[i].aircraft_id_receiving = s.aircraft_id

\* C3 witness: a transfer is returned although an earlier tertiary row of
\* another aircraft has its entry inside the sending visit's time window.
C3_Witness ==
    /\ Done
    /\ \E i \in 1..Len(Out) : \E t \in 1..Len(d) :
          /\ t < Out[i].index_receiving
          /\ ~d[t].is_primary_hospital
          /\ d[t].aircraft_id # Out[i].aircraft_id_receiving
          /\ d[t].UTC >= Out[i].UTC_out_sending
          /\ d[t].UTC <= Out[i].UTC_out_sending + 60 * args.max_transit_time

\* C4: the k-th primary visit (in input order) that has a candidate gets
\* transfer_id k and a primary visit without candidate gets none; in the
\* returned table no two transfers share a transfer_id, and transfer_id
\* increases strictly with the input order of the sending visits.
C4_TransferIdsInOrder ==
    Done =>
        /\ \A p \in 1..Len(d) :
              d[p].is_primary_hospital =>
                  transfer_ids[p] =
                      (IF Candidates(p) = {} THEN NaN
                       ELSE Cardinality({q \in 1..p : /\ d[q].is_primary_hospital
                                                      /\ Candidates(q) # {}}))
        /\ \A i, j \in 1..Len(Out) :
              /\ (i # j => Out[i].transfer_id # Out[j].transfer_id)
              /\ (Out[i].index_sending < Out[j].index_sending
                      => Out[i].transfer_id < Out[j].transfer_id)
        /\ \A i \in 1..Len(Out) : Out[i].transfer_id = transfer_ids[Out[i].index_sending]

\* C4 witness: two transfers are returned, with the ids 1 and 2 in the input
\* order of their sending visits.
C4_Witness ==
    /\ Done
    /\ Len(Out) = 2
    /\ Out[1].index_sending < Out[2].index_sending
    /\ Out[1].transfer_id = 1 /\ Out[2].transfer_id = 2

\* C5: with remove_outliers off, a primary visit with no tertiary visit of its
\* aircraft in its window yields no transfer; one whose window holds tertiary
\* visits, none of them in the window of another primary visit, yields exactly
\* one transfer, with the first such tertiary visit and a transit_time of
\* (T.UTC - P.UTC_out) minutes.
C5_OneTransferPerUncontendedPrimary ==
    (Done /\ ~args.remove_outliers) =>
        \A p \in 1..Len(d) :
            d[p].is_primary_hospital =>
                LET rows == {i \in 1..Len(Out) : Out[i].index_sending = p}
                    contended == \E q \in 1..Len(d), t \in Candidates(p) :
                                     q # p /\ InWindow(q, t)
                IN /\ Candidates(p) = {} => rows = {}
                   /\ (Candidates(p) # {} /\ ~contended) =>
                         /\ Cardinality(rows) = 1
                         /\ \A i \in rows :
                               /\ Out[i].index_receiving = Min(Candidates(p))
                               /\ Out[i].transit_time =
                                      d[Min(Candidates(p))].UTC - d[p].UTC_out

\* C5 witness: an uncontended primary visit with two tertiary visits in its
\* window is returned with the first of them, 29 minutes after its exit; the
\* table also holds a primary visit with an empty window.
C5_Witness ==
    /\ Done /\ ~args.remove_outliers
    /\ \E p \in 1..Len(d) :
          /\ d[p].is_primary_hospital
          /\ Cardinality(Candidates(p)) = 2
          /\ \A q \in 1..Len(d), t \in Candidates(p) : q # p => ~InWindow(q, t)
          /\ \E i \in 1..Len(Out) : Out[i].index_sending = p /\ Out[i].transit_time = 29
    /\ \E p \in 1..Len(d) : d[p].is_primary_hospital /\ Candidates(p) = {}

\* The primary rows that selected tertiary row t during matching, in the
\* order of the loop: t is the first row of their candidates.
SelectedBy(t) == {p \in 1..Len(d) : Candidates(p) # {} /\ Min(Candidates(p)) = t}

\* C14 (as claimed): with remove_outliers off, a tertiary visit selected for a
\* primary visit P1 is consumed: the transfer (P1, T) is returned, no primary
\* visit processed later is paired with T, and no primary visit that was
\* assigned a transfer_id is missing from the returned table.
C14_GreedyFirstMatchConsumption ==
    (Done /\ ~args.remove_outliers) =>
        /\ \A t \in 1..Len(d) :
              SelectedBy(t) # {} =>
                  \A i \in 1..Len(Out) :
                      Out[i].index_receiving = t
                          => Out[i].index_sending = Min(SelectedBy(t))
        /\ \A p \in 1..Len(d) :
              (d[p].is_primary_hospital /\ ~isnan(transfer_ids[p]))
                  => \E i \in 1..Len(Out) : Out[i].index_sending = p

(***************************************************************************)
(* Transfer enrichment of one merged row: lines 94-110, row by row         *)
(***************************************************************************)

\* The inputs of one row: exit at 10:00, entry 0..180 minutes later.
ExitTimes == {600}
TransitValues == {0, 17, 29, 30, 40, 45, 65, 180}
EnrichDistValues == {0, 25, 50, 125}
OutlierFactors == {1, 2, 3}
OutlierOffsets == {0, 5}

InitEnrich ==
    /\ epc = "merged"
    /\ \E out \in ExitTimes, transit \in TransitValues, dist \in EnrichDistValues,
          f \in OutlierFactors, o \in OutlierOffsets :
          ein = [row |-> [transfer_id |-> 1, index_sending |-> 1, index_receiving |-> 2,
                          UTC_sending |-> out - 31, UTC_out_sending |-> out,
                          UTC_receiving |-> out + transit, aircraft_id_receiving |-> 1],
                 estimated_distance |-> dist,
                 outlier_factor |-> f,
                 outlier_offset |-> o]
    /\ eout = <<>>
    /\ WIdle /\ TIdle /\ ZIdle /\ BIdle /\ HIdle

EnrichRow ==
    /\ epc = "merged"
    /\ eout' = Enrich(ein.row, ein.estimated_distance, ein.outlier_factor, ein.outlier_offset)
    /\ epc' = "enriched"
    /\ UNCHANGED <<ein, wvars, tvars, zvars, bvars, hvars>>

NextEnrich == EnrichRow

SpecEnrich == InitEnrich /\ [][NextEnrich]_vars

\* C9: transit_time_outlier is true iff transit_time > expected_transit_time *
\* outlier_factor + outlier_offset (strictly), where expected_transit_time =
\* (estimated_distance / 250) * 60 and transit_time is the minutes from the
\* sending exit to the receiving entry.  Stated without division:
\* 250 * (transit - offset) > 60 * distance * factor.
C9_OutlierIffAboveThreshold ==
    epc = "enriched" =>
        LET transit == ein.row.UTC_receiving - ein.row.UTC_out_sending
        IN /\ eout.transit_time = transit
           /\ 250 * eout.expected_transit_time = 60 * ein.estimated_distance
           /\ eout.transit_time_outlier =
                  (250 * (transit - ein.outlier_offset)
                       > 60 * ein.estimated_distance * ein.outlier_factor)
           /\ (transit = eout.expected_transit_time * ein.outlier_factor + ein.outlier_offset
                   => eout.transit_time_outlier = FALSE)

\* C9 witness: 50 km, factor 2, offset 5: expected 12 minutes, a transit of 40
\* minutes is above the threshold of 29 and flagged.
C9_Witness ==
    /\ epc = "enriched"
    /\ ein.estimated_distance = 50 /\ ein.outlier_factor = 2 /\ ein.outlier_offset = 5
    /\ eout.expected_transit_time = 12
    /\ eout.transit_time = 40
    /\ eout.transit_time_outlier = TRUE

\* A transit exactly at the threshold (29 minutes for 50 km, factor 2, offset
\* 5) is a case the model reaches, and it is not flagged.
C9_AtThreshold ==
    /\ epc = "enriched"
    /\ ein.estimated_distance = 50 /\ ein.outlier_factor = 2 /\ ein.outlier_offset = 5
    /\ eout.transit_time = 29
    /\ eout.transit_time_outlier = FALSE

(***************************************************************************)
(* Zone visits: find_transfers.extract_entries_and_exits                   *)
(***************************************************************************)

\* Bound of the position batches (NumAircraft bounds the aircraft).
MaxPositions == 4

\* Minutes between consecutive position records of one aircraft; 1442 is one
\* day and two minutes.
RecordGaps == {10, 1442}

\* The zones of the helipad table joined to the positions: zone 1 a primary
\* hospital with a dwell_time of 10 minutes, zone 2 a tertiary hospital with
\* 5 minutes, zone 3 a zone whose is_primary_hospital code is neither 0 nor 1.
Zones == {1, 2, 3}

ZoneDwellTime(z) == CASE z = 1 -> 10 [] z = 2 -> 5 [] z = 3 -> 5

ZonePrimaryCode(z) == CASE z = 1 -> 1 [] z = 2 -> 0 [] z = 3 -> 2

SecondsPerDay == 86400

\* A position record after the left join with the zones (NaN columns where
\* the position is in no zone).
PositionRecord(a, t, z) ==
    [aircraft_id |-> a, UTC |-> t, zone_name |-> z,
     dwell_time |-> IF z = NaN THEN NaN ELSE ZoneDwellTime(z),
     is_primary_hospital |-> IF z = NaN THEN NaN ELSE ZonePrimaryCode(z)]

\* Line 22
in_helipad_zone(r) == ~isnan(r.zone_name)

\* Line 23: in_helipad_zone.ne(in_helipad_zone.shift()); the shift is over
\* the whole table and the first row compares with a missing value.
zone_change(tbl, i) ==
    IF i = 1 THEN TRUE
    ELSE in_helipad_zone(tbl[i]) # in_helipad_zone(tbl[i - 1])

\* Lines 21-30: the flagged rows, entries and exits only.
FlagEvents(tbl) ==
    LET flagged == [i \in 1..Len(tbl) |->
            [aircraft_id |-> tbl[i].aircraft_id,
             UTC |-> tbl[i].UTC,
             zone_name |-> tbl[i].zone_name,
             dwell_time |-> tbl[i].dwell_time,
             is_primary_hospital |-> tbl[i].is_primary_hospital,
             in_helipad_zone |-> in_helipad_zone(tbl[i]),
             entry |-> zone_change(tbl, i) /\ in_helipad_zone(tbl[i]),
             exit |-> zone_change(tbl, i) /\ ~in_helipad_zone(tbl[i]),
             UTC_out |-> NaN,
             time_in_zone |-> NaN,
             label |-> i]]
    IN SelectSeq(flagged, LAMBDA r : r.entry \/ r.exit)

\* Line 32: groupby('aircraft_id')['UTC'].shift(-1)
ShiftUTCOut(rows) ==
    [i \in 1..Len(rows) |->
        LET later == {j \in (i + 1)..Len(rows) : rows[j].aircraft_id = rows[i].aircraft_id}
        IN [rows[i] EXCEPT !.UTC_out =
                IF later = {} THEN NaN
                ELSE rows[CHOOSE j \in later : \A j2 \in later : j <= j2].UTC]]

\* Line 34: (in_helipad_zone * (UTC_out - UTC)).dt.seconds / 60; .dt.seconds
\* is the seconds component of the timedelta, without its days.
time_in_zone(r) ==
    IF isnan(r.UTC_out) THEN NaN
    ELSE IF r.in_helipad_zone
    THEN (((r.UTC_out - r.UTC) * 60) % SecondsPerDay) \div 60
    ELSE 0

\* Line 37: time_in_zone > dwell_time, false when either is missing.
flyover_filter_inclusive(r) ==
    /\ ~isnan(r.time_in_zone) /\ ~isnan(r.dwell_time)
    /\ r.time_in_zone >= r.dwell_time

flyover_filter(r) ==
    /\ ~isnan(r.time_in_zone) /\ ~isnan(r.dwell_time)
    /\ r.time_in_zone > r.dwell_time

\* Lines 34-38 with the exit times re-derived from the rows handed in.
DwellFilter_reshift(rows) ==
    SelectSeq([i \in 1..Len(rows) |->
                  [ShiftUTCOut(rows)[i] EXCEPT
                      !.time_in_zone = time_in_zone(ShiftUTCOut(rows)[i])]],
              flyover_filter)

\* Lines 34-38: the dwell filter on rows that carry UTC and UTC_out.
DwellFilter(rows) ==
    SelectSeq([i \in 1..Len(rows) |->
                  [rows[i] EXCEPT !.time_in_zone = time_in_zone(rows[i])]],
              flyover_filter)

\* Line 41: .map({1: True, 0: False}); any other code maps to NaN.
MapPrimary(code) ==
    IF code = 1 THEN "True" ELSE IF code = 0 THEN "False" ELSE "NaN"

CleanPrimary(rows) ==
    [i \in 1..Len(rows) |->
        [rows[i] EXCEPT !.is_primary_hospital = MapPrimary(rows[i].is_primary_hospital)]]

InitZones ==
    /\ zpc = "load"
    /\ positions = <<>>
    /\ events = <<>>
    /\ visits = <<>>
    /\ refiltered = <<>>
    /\ WIdle /\ TIdle /\ EIdle /\ BIdle /\ HIdle

\* The batch gains one position record.  filter_flight_data hands the
\* records over in aircraft blocks, each sorted by UTC.
AddPosition ==
    /\ zpc = "load"
    /\ Len(positions) < MaxPositions
    /\ \E z \in Zones \cup {NaN} :
          \/ /\ positions # <<>>
             /\ \E gap \in RecordGaps :
                   positions' = Append(positions,
                       PositionRecord(positions[Len(positions)].aircraft_id,
                                      positions[Len(positions)].UTC + gap, z))
          \/ /\ LET a == IF positions = <<>> THEN 1
                         ELSE positions[Len(positions)].aircraft_id + 1
                IN /\ a <= NumAircraft
                   /\ positions' = Append(positions, PositionRecord(a, 0, z))
    /\ UNCHANGED <<zpc, events, visits, refiltered, wvars, tvars, evars, bvars, hvars>>

\* Lines 21-42: the whole function.  events keeps the table at line 34,
\* before the dwell filter drops rows.
Extract ==
    /\ zpc = "load"
    /\ LET shifted == ShiftUTCOut(FlagEvents(positions))
       IN /\ events' = [i \in 1..Len(shifted) |->
                           [shifted[i] EXCEPT !.time_in_zone = time_in_zone(shifted[i])]]
          /\ visits' = CleanPrimary(DwellFilter(shifted))
    /\ refiltered' = <<>>
    /\ zpc' = "done"
    /\ UNCHANGED <<positions, wvars, tvars, evars, bvars, hvars>>

\* The dwell filter once more, on the returned visits.
Refilter ==
    /\ zpc = "done"
    /\ refiltered' = DwellFilter(visits)
    /\ zpc' = "refiltered"
    /\ UNCHANGED <<positions, events, visits, wvars, tvars, evars, bvars, hvars>>

NextZones == AddPosition \/ Extract \/ Refilter

SpecZones == InitZones /\ [][NextZones]_vars

Extracted == zpc \in {"done", "refiltered"}

Aircraft == 1..NumAircraft

EntriesOf(a) == {i \in 1..Len(events) : events[i].aircraft_id = a /\ events[i].entry}

ExitsOf(a) == {i \in 1..Len(events) : events[i].aircraft_id = a /\ events[i].exit}

\* The aircraft's last position record is inside a zone: its last zone visit
\* has no exit.
LastVisitOpen(a) ==
    LET recs == {i \in 1..Len(positions) : positions[i].aircraft_id = a}
    IN recs # {} /\ positions[CHOOSE i \in recs : \A j \in recs : j <= i].zone_name # NaN

\* C6 (as claimed): per aircraft the entry events equal the exit events in
\* number, or exceed them by exactly one when the aircraft's last zone visit
\* has no exit; the exit events never exceed the entry events.
C6_EntriesMatchExits ==
    Extracted =>
        \A a \in Aircraft :
            LET ne == Cardinality(EntriesOf(a))
                nx == Cardinality(ExitsOf(a))
            IN /\ nx <= ne
               /\ ne = (IF LastVisitOpen(a) THEN nx + 1 ELSE nx)

\* The events after a candidate visit (an entry event) of the same aircraft.
LaterEvents(i) ==
    {j \in (i + 1)..Len(events) : events[j].aircraft_id = events[i].aircraft_id}

Kept(i) == \E v \in 1..Len(visits) : visits[v].label = events[i].label

C7_NullExitDropped ==
    /\ Extracted
    /\ \E i, j \in 1..Len(events) :
          /\ events[i].entry /\ LaterEvents(i) = {} /\ ~Kept(i)
          /\ events[j].entry /\ Kept(j)

C13_PrimaryFlagIsBoolean ==
    Extracted =>
        \A v \in 1..Len(visits) : visits[v].is_primary_hospital \in {"True", "False"}

\* The events of aircraft a as (UTC, entry, exit), in row order.
EventsOfAircraft(tbl, a) ==
    LET own == SelectSeq(FlagEvents(tbl), LAMBDA r : r.aircraft_id = a)
    IN [i \in 1..Len(own) |-> <<own[i].UTC, own[i].entry, own[i].exit>>]

\* The batch that holds the records of aircraft a alone.
OwnRecords(tbl, a) == SelectSeq(tbl, LAMBDA r : r.aircraft_id = a)

\* C15 (as claimed): the events emitted for an aircraft are determined by its
\* own records: the batch and the batch of the aircraft's records alone give
\* the same events for it, and a record after the aircraft's first one is an
\* event exactly when its in-zone boolean differs from the aircraft's
\* preceding record.
C15_EventsDependOnOwnRecordsOnly ==
    Extracted =>
        /\ \A a \in Aircraft :
              EventsOfAircraft(positions, a) = EventsOfAircraft(OwnRecords(positions, a), a)
        /\ \A i \in 2..Len(positions) :
              positions[i].aircraft_id = positions[i - 1].aircraft_id =>
                  ((\E e \in 1..Len(events) : events[e].label = i)
                      = ((positions[i].zone_name = NaN) # (positions[i - 1].zone_name = NaN)))

\* C16 (as claimed): for every candidate visit with a defined exit,
\* time_in_zone is the full elapsed time UTC_out - UTC in minutes, also for
\* dwells of 24 hours or more, and the visit is kept when that exceeds the
\* threshold of its zone.
C16_DwellIsFullElapsedTime ==
    Extracted =>
        \A i \in 1..Len(events) :
            (events[i].entry /\ ~isnan(events[i].UTC_out)) =>
                /\ events[i].time_in_zone = events[i].UTC_out - events[i].UTC
                /\ (events[i].UTC_out - events[i].UTC > ZoneDwellTime(events[i].zone_name)
                        => Kept(i))

(***************************************************************************)
(* Weather minima: infer_hems_minima.hems_minima                           *)
(***************************************************************************)

\* Observed values the inputs are drawn from: each threshold of the rule
\* table, the value just below it, and a missing value.
CeilingValues == {NaN, 299, 300, 399, 400, 450, 499, 500}
VisibilityValues == {NaN, 799, 800, 999, 1000, 1200, 1999, 2000, 2499, 2500, 3000}
CloudBaseValues == {NaN, 1000, 1199, 1200}

Observations ==
    [daylight : BOOLEAN, metar_cloud_ceiling : CeilingValues,
     metar_cloud_base : CloudBaseValues, metar_visibility : VisibilityValues]

hems_minima_ceiling_check_only(r) ==
    LET cloud_ceiling == r.metar_cloud_ceiling
        cloud_base == r.metar_cloud_base
        visibility == r.metar_visibility
    IN IF r.daylight
       THEN IF isnan(cloud_ceiling)
            THEN "NaN"
            ELSE IF cloud_ceiling >= 400 /\ cloud_ceiling < 500
            THEN PyBool(visibility >= 1000)
            ELSE IF cloud_ceiling >= 300 /\ cloud_ceiling < 400
            THEN PyBool(visibility >= 2000)
            ELSE IF cloud_ceiling >= 500
            THEN PyBool(visibility >= 800)
            ELSE "False"
       ELSE IF isnan(cloud_base) \/ isnan(visibility)
            THEN "NaN"
            ELSE PyBool(cloud_base >= 1200 /\ visibility >= 2500)

\* The verdict, or "TypeError" when an np.isnan that is evaluated raises; in
\* `a or b` the right operand is evaluated only when the left one is false.
hems_minima(r) ==
    LET daylight == r.daylight
        cloud_ceiling == r.metar_cloud_ceiling
        cloud_base == r.metar_cloud_base
        visibility == r.metar_visibility
    IN IF daylight
       THEN IF isnan_raises(cloud_ceiling)
                  \/ (~isnan(cloud_ceiling) /\ isnan_raises(visibility))
            THEN "TypeError"
            ELSE IF isnan(cloud_ceiling) \/ isnan(visibility)
            THEN "NaN"
            ELSE IF cloud_ceiling >= 400 /\ cloud_ceiling < 500
            THEN PyBool(visibility >= 1000)
            ELSE IF cloud_ceiling >= 300 /\ cloud_ceiling < 400
            THEN PyBool(visibility >= 2000)
            ELSE IF cloud_ceiling >= 500
            THEN PyBool(visibility >= 800)
            ELSE "False"
       ELSE IF isnan_raises(cloud_base)
                  \/ (~isnan(cloud_base) /\ isnan_raises(visibility))
            THEN "TypeError"
            ELSE IF isnan(cloud_base) \/ isnan(visibility)
            THEN "NaN"
            ELSE PyBool(cloud_base >= 1200 /\ visibility >= 2500)

InitMinima ==
    /\ wpc = "input"
    /\ row \in Observations
    /\ verdict = "NaN"
    /\ TIdle /\ EIdle /\ ZIdle /\ BIdle /\ HIdle

Classify ==
    /\ wpc = "input"
    /\ verdict' = hems_minima(row)
    /\ wpc' = "classified"
    /\ UNCHANGED <<row, tvars, evars, zvars, bvars, hvars>>

NextMinima == Classify

SpecMinima == InitMinima /\ [][NextMinima]_vars

\* C10: hems_minima returns the verdict of the rule table.  By day: unknown
\* when ceiling or visibility is missing, else true iff (300 <= ceiling < 400
\* and visibility >= 2000) or (400 <= ceiling < 500 and visibility >= 1000)
\* or (ceiling >= 500 and visibility >= 800), so false below 300.  By night:
\* unknown when cloud base or visibility is missing, else true iff cloud base
\* >= 1200 and visibility >= 2500.  A missing field never yields false, and
\* the field the active branch does not use never changes the verdict.
C10_MinimaRuleTable ==
    wpc = "classified" =>
        LET c == row.metar_cloud_ceiling
            b == row.metar_cloud_base
            v == row.metar_visibility
            dayMissing == c = NaN \/ v = NaN
            nightMissing == b = NaN \/ v = NaN
            dayPass == \/ (300 <= c /\ c < 400 /\ v >= 2000)
                       \/ (400 <= c /\ c < 500 /\ v >= 1000)
                       \/ (c >= 500 /\ v >= 800)
            nightPass == b >= 1200 /\ v >= 2500
        IN /\ (row.daylight /\ dayMissing) => verdict = "NaN"
           /\ (row.daylight /\ ~dayMissing) =>
                 /\ verdict = (IF dayPass THEN "True" ELSE "False")
                 /\ (c < 300 => verdict = "False")
           /\ (~row.daylight /\ nightMissing) => verdict = "NaN"
           /\ (~row.daylight /\ ~nightMissing) =>
                 verdict = (IF nightPass THEN "True" ELSE "False")
           /\ row.daylight =>
                 \A b2 \in CloudBaseValues :
                     hems_minima([row EXCEPT !.metar_cloud_base = b2]) = verdict
           /\ ~row.daylight =>
                 \A c2 \in CeilingValues :
                     hems_minima([row EXCEPT !.metar_cloud_ceiling = c2]) = verdict

\* C10 witness: daylight, ceiling 450, visibility 1200 classified true although
\* the cloud base is missing.
C10_Witness ==
    /\ wpc = "classified"
    /\ row.daylight /\ row.metar_cloud_ceiling = 450 /\ row.metar_visibility = 1200
    /\ row.metar_cloud_base = NaN
    /\ verdict = "True"

(***************************************************************************)
(* hems_minima over a batch of weather rows                                *)
(***************************************************************************)

MaxRows == 2

\* Field values of a batch row: missing, a passing value, or the marker.
BatchCeilingValues == {NaN, 450, ParserError}
BatchVisibilityValues == {NaN, 3000, ParserError}
BatchCloudBaseValues == {NaN, 1200, ParserError}

BatchObservations ==
    [daylight : BOOLEAN, metar_cloud_ceiling : BatchCeilingValues,
     metar_cloud_base : BatchCloudBaseValues,
     metar_visibility : BatchVisibilityValues]

InitBatch ==
    /\ bpc = "input"
    /\ batch = <<>>
    /\ verdicts = <<>>
    /\ WIdle /\ TIdle /\ EIdle /\ ZIdle /\ HIdle

AddRow ==
    /\ bpc = "input"
    /\ Len(batch) < MaxRows
    /\ \E r \in BatchObservations : batch' = Append(batch, r)
    /\ UNCHANGED <<bpc, verdicts, wvars, tvars, evars, zvars, hvars>>

\* hems_minima is called on the rows in order; it catches nothing, so the
\* first TypeError ends the classification and no verdict column is produced.
ApplyMinima ==
    /\ bpc = "input"
    /\ Len(batch) >= 1
    /\ IF \E i \in 1..Len(batch) : hems_minima(batch[i]) = "TypeError"
       THEN bpc' = "raised" /\ verdicts' = <<>>
       ELSE /\ bpc' = "returned"
            /\ verdicts' = [i \in 1..Len(batch) |-> hems_minima(batch[i])]
    /\ UNCHANGED <<batch, wvars, tvars, evars, zvars, hvars>>

NextBatch == AddRow \/ ApplyMinima

SpecBatch == InitBatch /\ [][NextBatch]_vars

\* A row with the marker in its visibility, ceiling or cloud base.
Marked(r) ==
    \/ r.metar_visibility = ParserError
    \/ r.metar_cloud_ceiling = ParserError
    \/ r.metar_cloud_base = ParserError

\* C12 (as claimed): a row that carries the parse-error marker does not abort
\* the batch: the classification returns a verdict for every row, unknown for
\* a marked row and the verdict of the rule table for every other row.
C12_ParserErrorRowDoesNotAbortBatch ==
    bpc \in {"returned", "raised"} =>
        /\ bpc = "returned"
        /\ Len(verdicts) = Len(batch)
        /\ \A i \in 1..Len(batch) :
              verdicts[i] = (IF Marked(batch[i]) THEN "NaN" ELSE hems_minima(batch[i]))

(***************************************************************************)
(* Rolling aggregate: infer_hems_minima.hems_minima_window                 *)
(***************************************************************************)

MaxObs == 3

\* The airports, in the order groupby('icao') iterates over them.
Airports == <<"ESGG", "ESSA">>
ObsTimes == {0, 120, 121}
Verdicts == {"True", "False", "NaN"}

\* window='241Min'
WindowMinutes == 241

WeatherRows == [icao : {Airports[a] : a \in 1..Len(Airports)},
                time_utc : ObsTimes, hems_minima : Verdicts]

\* A group of groupby('icao'): the rows of one airport in row order, each
\* with its index label.
Group(tbl, airport) ==
    LET labelled == [i \in 1..Len(tbl) |->
                        [label |-> i, icao |-> tbl[i].icao,
                         time_utc |-> tbl[i].time_utc,
                         hems_minima |-> tbl[i].hems_minima]]
    IN SelectSeq(labelled, LAMBDA r : r.icao = airport)

\* group.sort_values(by='time_utc'); rows of equal time keep their order.
sort_values(group) ==
    LET rank(i) == Cardinality({j \in 1..Len(group) :
                        \/ group[j].time_utc < group[i].time_utc
                        \/ (group[j].time_utc = group[i].time_utc /\ j < i)}) + 1
    IN [p \in 1..Len(group) |-> group[CHOOSE i \in 1..Len(group) : rank(i) = p]]

\* The column as the float64 values rolling works on.
to_float(v) == IF v = "True" THEN 1 ELSE IF v = "False" THEN 0 ELSE NaN

\* Bounds of the centered window of row i of a sorted group, in positions:
\* rows later than time - window/2 and not later than time + window/2.
window_start(group, i) ==
    Min({j \in 1..Len(group) :
            2 * (group[j].time_utc - group[i].time_utc) > -WindowMinutes})
window_end(group, i) ==
    CHOOSE j \in 1..Len(group) :
        /\ 2 * (group[j].time_utc - group[i].time_utc) <= WindowMinutes
        /\ \A l \in 1..Len(group) :
              2 * (group[l].time_utc - group[i].time_utc) <= WindowMinutes => l <= j

weather_minima_all(period) ==
    IF \A n \in 1..Len(period) : isnan(period[n])
    THEN NaN
    ELSE IF \A n \in 1..Len(period) : isnan(period[n]) \/ period[n] # 0 THEN 1 ELSE 0

\* The inner function of lines 36-40; its bool is stored as a float.
weather_minima(period) ==
    IF \A n \in 1..Len(period) : isnan(period[n])
    THEN NaN
    ELSE IF \E n \in 1..Len(period) : ~isnan(period[n]) /\ period[n] # 0 THEN 1 ELSE 0

\* rolling(...).apply(weather_minima): a window without a value (min_periods
\* 1) is NaN and the function is not called.
rolling_apply(group) ==
    [i \in 1..Len(group) |->
        LET start == window_start(group, i)
            end == window_end(group, i)
            period == [n \in 1..(end - start + 1) |->
                          to_float(group[start + n - 1].hems_minima)]
        IN IF Cardinality({n \in 1..Len(period) : ~isnan(period[n])}) < 1
           THEN NaN
           ELSE weather_minima(period)]

\* .map({1: True, 0: False, None: np.NaN})
MapWindow(x) == IF x = 1 THEN "True" ELSE IF x = 0 THEN "False" ELSE "NaN"

\* Lines 44-52 for one airport.
WindowGroup(tbl, airport) ==
    LET group == sort_values(Group(tbl, airport))
        result == rolling_apply(group)
    IN [i \in 1..Len(group) |->
           [label |-> group[i].label, icao |-> group[i].icao,
            time_utc |-> group[i].time_utc, hems_minima |-> group[i].hems_minima,
            hems_minima_window |-> result[i]]]

RECURSIVE concat(_, _)
concat(tbl, a) ==
    IF a > Len(Airports) THEN <<>>
    ELSE WindowGroup(tbl, Airports[a]) \o concat(tbl, a + 1)

hems_minima_window(tbl) ==
    LET res == concat(tbl, 1)
    IN [i \in 1..Len(res) |->
           [res[i] EXCEPT !.hems_minima_window = MapWindow(res[i].hems_minima_window)]]

InitWindow ==
    /\ hpc = "input"
    /\ obs = <<>>
    /\ res_df = <<>>
    /\ WIdle /\ TIdle /\ EIdle /\ ZIdle /\ BIdle

AddObservation ==
    /\ hpc = "input"
    /\ Len(obs) < MaxObs
    /\ \E r \in WeatherRows : obs' = Append(obs, r)
    /\ UNCHANGED <<hpc, res_df, wvars, tvars, evars, zvars, bvars>>

Window ==
    /\ hpc = "input"
    /\ res_df' = hems_minima_window(obs)
    /\ hpc' = "done"
    /\ UNCHANGED <<obs, wvars, tvars, evars, zvars, bvars>>

NextWindow == AddObservation \/ Window

SpecWindow == InitWindow /\ [][NextWindow]_vars

\* The observations of tbl in the window centered on observation i: same
\* airport, at most half the window away in time.
InWindowOf(tbl, i) ==
    {j \in 1..Len(tbl) :
        /\ tbl[j].icao = tbl[i].icao
        /\ 2 * (tbl[j].time_utc - tbl[i].time_utc) > -WindowMinutes
        /\ 2 * (tbl[j].time_utc - tbl[i].time_utc) <= WindowMinutes}

\* The aggregate the result table holds for the observation labelled i.
AggregateOf(res, i) ==
    LET r == CHOOSE n \in 1..Len(res) : res[n].label = i
    IN res[r].hems_minima_window

\* C11: every observation o gets one row, whose hems_minima_window is unknown
\* if every verdict of its airport in the window centered on o is unknown,
\* true if at least one is true, false otherwise; changing the verdict of an
\* observation of another airport or outside the window leaves it unchanged.
C11_WindowAggregate ==
    hpc = "done" =>
        /\ Len(res_df) = Len(obs)
        /\ \A i \in 1..Len(obs) :
              /\ Cardinality({n \in 1..Len(res_df) : res_df[n].label = i}) = 1
              /\ AggregateOf(res_df, i) =
                    (IF \A j \in InWindowOf(obs, i) : obs[j].hems_minima = "NaN"
                     THEN "NaN"
                     ELSE IF \E j \in InWindowOf(obs, i) : obs[j].hems_minima = "True"
                     THEN "True"
                     ELSE "False")
        /\ \A j \in 1..Len(obs) :
              \A v \in Verdicts \ {obs[j].hems_minima} :
                  LET changed == hems_minima_window([obs EXCEPT ![j].hems_minima = v])
                      outside(r) == j \notin InWindowOf(obs, r.label)
                  IN SelectSeq(changed, outside) = SelectSeq(res_df, outside)

\* C11 witness: an aggregate that is false although an observation of the
\* same airport, outside the window, is true, and an observation with an
\* unknown verdict whose aggregate is true.
C11_Witness ==
    /\ hpc = "done"
    /\ \E i \in 1..Len(obs) :
          /\ AggregateOf(res_df, i) = "False"
          /\ \E j \in 1..Len(obs) :
                obs[j].icao = obs[i].icao /\ obs[j].hems_minima = "True"
    /\ \E i \in 1..Len(obs) :
          obs[i].hems_minima = "NaN" /\ AggregateOf(res_df, i) = "True"

====
